---- MODULE Spec2Model ----
\* A model of seccompiler's compile_bpf (src/seccompiler/src/lib.rs): one call
\* reads a JSON policy, drives one libseccomp context per filter group, reads
\* each exported BPF program back through a memfd and writes the bincode of the
\* name -> program map to the output file.
EXTENDS Integers, Sequences, FiniteSets, TLC

\* ------------------------------------------------------------------ bounds

\* The largest number of filter groups a document holds.
MaxGroups == 2
\* The largest number of rules a document holds, over all its groups.
MaxRules == 2

\* ------------------------------------------------------- program constants

\* std::mem::size_of::<u64>()
WordSize == 8
\* bindings::MINUS_EEXIST, -libc::EEXIST
MINUS_EEXIST == -17
\* bindings::__NR_SCMP_ERROR
NR_SCMP_ERROR == -1
\* Any other negative errno a libseccomp call answers with (-EINVAL).
MINUS_EINVAL == -22

\* ------------------------------------------------------------ Rust values

\* Option<T>: None is the empty sequence, Some(x) the one-element sequence.
None == <<>>
Some(x) == <<x>>
IsSome(o) == Len(o) = 1
Unwrap(o) == o[1]

\* The sequence s[1..n].
Take(s, n) == SubSeq(s, 1, n)

RECURSIVE Flatten(_)
\* The concatenation of a sequence of sequences.
Flatten(ss) == IF ss = <<>> THEN <<>> ELSE Head(ss) \o Flatten(Tail(ss))

\* A little-endian u16 as its two bytes.
U16Bytes(n) == <<n % 256, n \div 256>>

\* ---------------------------------------------------------- policy model

\* types::SeccompAction::to_scmp_type: the u32 libseccomp action, as its four
\* little-endian bytes (SCMP_ACT_ALLOW 0x7fff0000, SCMP_ACT_KILL_THREAD 0,
\* SCMP_ACT_TRAP 0x00030000, SCMP_ACT_LOG 0x7ffc0000).
ActionToScmp(a) ==
    CASE a = "allow" -> <<0, 0, 255, 127>>
      [] a = "kill_thread" -> <<0, 0, 0, 0>>
      [] a = "trap" -> <<0, 0, 3, 0>>
      [] a = "log" -> <<0, 0, 252, 127>>

\* types::TargetArch::from_str: Ok(arch) for the tokens of the closed set,
\* Err(token) otherwise.
ArchFromStr(tok) ==
    IF tok \in {"x86_64", "aarch64"} THEN [ok |-> TRUE, arch |-> tok]
    ELSE [ok |-> FALSE, arch |-> tok]

\* types::TargetArch::to_scmp_type: SCMP_ARCH_X86_64 0xc000003e,
\* SCMP_ARCH_AARCH64 0xc00000b7, as four little-endian bytes.
ArchToScmp(arch) ==
    IF arch = "x86_64" THEN <<62, 0, 0, 192>> ELSE <<183, 0, 0, 192>>

\* types::SeccompCondition::to_scmp_type: the scmp_arg_cmp of one argument
\* condition; masked-equal carries the mask in datum_a and the value in
\* datum_b, every other operator the value in datum_a.
CondToScmp(c) ==
    IF c.op = "masked_eq"
    THEN [arg |-> c.index, op |-> 7, datum_a |-> Unwrap(c.comp), datum_b |-> c.val]
    ELSE [arg |-> c.index, op |-> IF c.op = "eq" THEN 4 ELSE 5,
          datum_a |-> c.val, datum_b |-> 0]

\* The argument conditions the documents draw from.
CondEq == [index |-> 0, op |-> "eq", val |-> 1, comp |-> None]
CondMasked == [index |-> 1, op |-> "masked_eq", val |-> 2, comp |-> Some(3)]

\* The rules the documents draw from: a rule without args, a rule with two
\* argument conditions, and a rule naming a syscall the resolver does not know.
RuleSet ==
    { [syscall |-> "read", args |-> None],
      [syscall |-> "write", args |-> Some(<<CondEq, CondMasked>>)],
      [syscall |-> "bogus", args |-> None] }

RECURSIVE SeqsUpTo(_, _)
\* All sequences over S of length at most n.
SeqsUpTo(S, n) ==
    IF n = 0 THEN {<<>>}
    ELSE LET shorter == SeqsUpTo(S, n - 1)
         IN  shorter \cup {Append(s, x) : s \in {t \in shorter : Len(t) = n - 1}, x \in S}

\* The groups the documents draw from, in iteration order: the i-th group of
\* a document has the i-th name and actions, and any list of rules.
GroupShapes ==
    << [name |-> "api", default_action |-> "kill_thread", filter_action |-> "allow"],
       [name |-> "vcpu", default_action |-> "allow", filter_action |-> "trap"],
       [name |-> "vmm", default_action |-> "trap", filter_action |-> "log"] >>

\* The [name, filter] entries (types::Filter) the i-th group may be when it
\* may hold up to n rules.
GroupsAt(i, n) ==
    { [name |-> GroupShapes[i].name,
       filter |-> [default_action |-> GroupShapes[i].default_action,
                   filter_action |-> GroupShapes[i].filter_action,
                   filter |-> rs]] : rs \in SeqsUpTo(RuleSet, n) }

RECURSIVE RuleCount(_)
\* The number of rules of a document, over all its groups.
RuleCount(d) ==
    IF d = <<>> THEN 0 ELSE Len(Head(d).filter.filter) + RuleCount(Tail(d))

\* A rule / filter / document with args omitted from every rule.
StripRule(r) == [r EXCEPT !.args = None]
StripFilter(f) == [f EXCEPT !.filter = [i \in DOMAIN f.filter |-> StripRule(f.filter[i])]]
StripArgs(d) == [i \in DOMAIN d |-> [d[i] EXCEPT !.filter = StripFilter(d[i].filter)]]

\* ------------------------------------------------- the filter backend

\* The architecture of the machine the compiler runs on: a context from
\* seccomp_init already holds it, so adding it again answers -EEXIST.
NativeArch == "x86_64"

\* seccomp_syscall_resolve_name: the syscall number of a name, or
\* __NR_SCMP_ERROR for a name the table does not hold.
SeccompSyscallResolveName(name) ==
    CASE name = "read" -> 0
      [] name = "write" -> 1
      [] OTHER -> NR_SCMP_ERROR

\* The context seccomp_init(default_action) returns; it lives until
\* seccomp_release is called on it.
SeccompInit(default_action) ==
    [default_action |-> default_action, archs |-> <<NativeArch>>, rules |-> <<>>,
     released |-> FALSE]

\* What seccomp_arch_add answers when it does not fail for want of memory.
SeccompArchAddResp(ctx, a) ==
    IF \E i \in DOMAIN ctx.archs : ctx.archs[i] = a THEN MINUS_EEXIST ELSE 0

\* The context after seccomp_arch_add answered r.
SeccompArchAdd(ctx, a, r) ==
    IF r = 0 THEN [ctx EXCEPT !.archs = Append(@, a)] ELSE ctx

\* The context after seccomp_rule_add / seccomp_rule_add_array answered 0:
\* the rule joins the filter with its cmps as one conjunction.
SeccompRuleAdd(ctx, action, syscall, cmps) ==
    [ctx EXCEPT !.rules = Append(@, [action |-> action, syscall |-> syscall, cmps |-> cmps])]

\* One 8-byte BPF instruction {code: u16, jt: u8, jf: u8, k: u32}, as bytes.
Instr(code, jt, jf, k) == U16Bytes(code) \o <<jt, jf>> \o k

\* The instructions of one rule: a jump on the syscall number, one
\* instruction per comparator, and the return of the rule's action.
RuleInstrs(rule) ==
    <<Instr(21, Len(rule.cmps), 0, <<rule.syscall, 0, 0, 0>>)>>
    \o [i \in DOMAIN rule.cmps |->
          Instr(32 + rule.cmps[i].op, rule.cmps[i].arg, 0,
                <<rule.cmps[i].datum_a, rule.cmps[i].datum_b, 0, 0>>)]
    \o <<Instr(6, 0, 0, rule.action)>>

\* The bytes seccomp_export_bpf writes for a context: the architecture
\* checks, the rules in the order they were added, the default action.
SeccompExportBpf(ctx) ==
    Flatten([i \in DOMAIN ctx.archs |-> Instr(21, 0, 0, ArchToScmp(ctx.archs[i]))]
            \o Flatten([i \in DOMAIN ctx.rules |-> RuleInstrs(ctx.rules[i])])
            \o <<Instr(6, 0, 0, ctx.default_action)>>)

\* The byte counts the write(2) that seccomp_export_bpf makes may return for
\* a program: all of it, or a short count that the backend does not look at
\* (it reports failure only for a negative count).
WriteCounts(bytes) == {Len(bytes), Len(bytes) - 3}

\* ------------------------------------------------------------ the memfd

\* A write that cuts the file off at the end of the bytes written.
WriteAtTruncating(data, pos, bytes) == SubSeq(data, 1, pos) \o bytes

\* write(2) of bytes at offset pos of a file holding data: the bytes
\* replace what was there and the file grows when they reach past its end;
\* it never shrinks.
WriteAt(data, pos, bytes) ==
    LET end == pos + Len(bytes)
        n == IF end > Len(data) THEN end ELSE Len(data)
    IN  [i \in 1..n |->
            IF i > pos /\ i <= end THEN bytes[i - pos]
            ELSE IF i <= Len(data) THEN data[i] ELSE 0]

\* The Vec<u64> whose bytes (as_mut_bytes) are the given bytes.
BytesToWords(bytes) ==
    [w \in 1..(Len(bytes) \div WordSize) |->
        SubSeq(bytes, (w - 1) * WordSize + 1, w * WordSize)]

\* vec![0_u64; n]
ZeroWords(n) == [w \in 1..n |-> [b \in 1..WordSize |-> 0]]

\* ------------------------------------------------------- the artifact

RECURSIVE Perms(_)
\* All orders in which the keys S of a HashMap may be iterated.
Perms(S) ==
    IF S = {} THEN {<<>>}
    ELSE UNION {{<<x>> \o p : p \in Perms(S \ {x})} : x \in S}

\* bincode of one u64 / one String / one Vec<u64>: a u64 is one item, a
\* String and a Vec are their length followed by their contents.
BinU64(n) == <<[t |-> "u64", v |-> n]>>
BinString(str) == BinU64(Len(str)) \o <<[t |-> "utf8", s |-> str]>>
BinVec(words) == BinU64(Len(words)) \o [i \in DOMAIN words |-> [t |-> "word", w |-> words[i]]]

\* bincode of a HashMap<String, Vec<u64>> iterated in the given order: the
\* entry count, then each key and value.
Bincode(map, order) ==
    BinU64(Len(order))
    \o Flatten([i \in DOMAIN order |-> BinString(order[i]) \o BinVec(map[order[i]])])

\* An insert that forgets the entries the map held.
MapInsertAlone(map, k, v) == [x \in {k} |-> v]

\* HashMap::insert
MapInsert(map, k, v) ==
    [x \in (DOMAIN map) \cup {k} |-> IF x = k THEN v ELSE map[x]]

\* ------------------------------------------------------------ the state

VARIABLES
    arch_tok,   \* the `arch` argument of compile_bpf
    basic,      \* the `basic` argument
    doc,        \* bpf_map_json.0 as far as the run has iterated it:
                \* a sequence of [name, filter] in iteration order
    docClosed,  \* whether doc is the whole document
    pc,         \* where compile_bpf stands
    result,     \* "running", "Ok", "panic" or the CompilationError returned
    gi,         \* the number of filter groups already inserted in bpf_map
    ri,         \* the number of rules of the current group already added
    arch,       \* the parsed TargetArch
    ctxs,       \* the libseccomp contexts created, by pointer 1, 2, ...
    bpf_filter, \* the pointer of the current group's context
    memfd,      \* the memfd: [id, open, data, pos]
    bpf,        \* the Vec<u64> of the current group
    bpf_map,    \* the HashMap<String, Vec<u64>>
    outfile,    \* the file at out_path: [state, content]
    trace,      \* every call to the backend or the OS with its answer
    exports,    \* every successful seccomp_export_bpf: [fd, group, bytes]
    run,        \* 1 in the first call of compile_bpf, 2 in the second
    prev        \* what the first call left, for the second to compare with

vars == <<arch_tok, basic, doc, docClosed, pc, result, gi, ri, arch, ctxs,
          bpf_filter, memfd, bpf, bpf_map, outfile, trace, exports, run, prev>>

\* The variants of enum CompilationError.
CompilationError ==
    {"IntputOpen", "InputRead", "JsonDeserialize", "ArchParse", "LibSeccompContext",
     "LibSeccompAddArch", "LibSeccompResolveSyscall", "LibSeccompAddRule",
     "LibSeccompExport", "MemfdCreate", "MemfdRewind", "MemfdRead", "OutputCreate",
     "BincodeSerialize"}

\* The `arch` arguments the calls draw from.
ArchTokens == {"x86_64", "aarch64", "mips"}

NoMemfd == [id |-> 0, open |-> FALSE, data |-> <<>>, pos |-> 0]
NoPrev == [doc |-> <<>>, arch_tok |-> "", basic |-> FALSE, stripped |-> FALSE,
           trace |-> <<>>, result |-> "none", bpf_map |-> <<>>, artifact |-> <<>>]

\* The steps with the output file created before the loop over the groups.
StageOrderEarlyCreate ==
    <<"open", "read", "parse", "arch", "memfd", "create", "group", "serialize", "done">>

\* The order of the steps of compile_bpf around the loop over the groups.
StageOrder ==
    <<"open", "read", "parse", "arch", "memfd", "group", "create", "serialize", "done">>

\* The step that follows a step.
After(stage) ==
    StageOrder[(CHOOSE i \in DOMAIN StageOrder : StageOrder[i] = stage) + 1]

\* The locals at the entry of compile_bpf.
AtEntry ==
    /\ pc = StageOrder[1]
    /\ result = "running"
    /\ gi = 0 /\ ri = 0
    /\ arch = ""
    /\ ctxs = <<>> /\ bpf_filter = 0
    /\ memfd = NoMemfd
    /\ bpf = <<>> /\ bpf_map = <<>>
    /\ trace = <<>> /\ exports = <<>>

Init ==
    /\ arch_tok \in ArchTokens
    /\ basic \in BOOLEAN
    /\ doc = <<>> /\ docClosed = FALSE
    /\ outfile = [state |-> "untouched", content |-> <<>>]
    /\ run = 1 /\ prev = NoPrev
    /\ AtEntry

\* The answers the environment may give to the n-th call of a run: in a
\* second run the backend and the OS answer a call they saw at the same
\* place of the first run as they answered it then.
EnvAt(n, c, choices) ==
    IF run > 1 /\ n <= Len(prev.trace) /\ prev.trace[n].call = c
    THEN {prev.trace[n].resp}
    ELSE choices

Env(c, choices) == EnvAt(Len(trace) + 1, c, choices)

\* The steps inside the loop over the groups.
LoopPcs == {"group", "arch_add", "rule", "rewind", "size", "read_exact", "rewind2"}

\* One entry of the trace: the call, its answer, and the group whose turn of
\* the loop made it (0 outside the loop).
Entry(c, r) == [call |-> c, resp |-> r, group |-> IF pc \in LoopPcs THEN gi + 1 ELSE 0]

Log(c, r) == Append(trace, Entry(c, r))

\* A return that leaves the memfd's descriptor open, as a raw fd would be.
ReturnRawFd(e) ==
    /\ result' = e
    /\ pc' = "done"
    /\ UNCHANGED memfd

\* `return Err(e)` / `?`: the function ends and its locals are dropped; the
\* File that owns the memfd closes it.
Return(e) ==
    /\ result' = e
    /\ pc' = "done"
    /\ memfd' = [memfd EXCEPT !.open = FALSE]

\* The current group of the loop over bpf_map_json.0.
CurName == doc[gi + 1].name
CurFilter == doc[gi + 1].filter

\* ---------------------------------------------------------- the steps

\* File::open(input_path)
OpenInput ==
    /\ pc = "open"
    /\ LET c == [op |-> "File::open", path |-> "input_path"] IN
       \E r \in Env(c, {0, -1}) :
          /\ trace' = Log(c, r)
          /\ IF r = 0
             THEN pc' = After("open") /\ UNCHANGED <<result, memfd>>
             ELSE Return("IntputOpen")
    /\ UNCHANGED <<arch_tok, basic, doc, docClosed, gi, ri, arch, ctxs, bpf_filter,
                   bpf, bpf_map, outfile, exports, run, prev>>

\* .read_to_string(&mut file_content)
ReadInput ==
    /\ pc = "read"
    /\ LET c == [op |-> "read_to_string"] IN
       \E r \in Env(c, {0, -1}) :
          /\ trace' = Log(c, r)
          /\ IF r = 0
             THEN pc' = After("read") /\ UNCHANGED <<result, memfd>>
             ELSE Return("InputRead")
    /\ UNCHANGED <<arch_tok, basic, doc, docClosed, gi, ri, arch, ctxs, bpf_filter,
                   bpf, bpf_map, outfile, exports, run, prev>>

\* serde_json::from_str(&file_content): the text is a policy document or it
\* is not; the groups of a document show as the loop iterates them.
ParseJson ==
    /\ pc = "parse"
    /\ LET c == [op |-> "serde_json::from_str"] IN
       \E r \in Env(c, {0, -1}) :
          /\ trace' = Log(c, r)
          /\ IF r = 0
             THEN pc' = After("parse") /\ UNCHANGED <<result, memfd>>
             ELSE Return("JsonDeserialize")
    /\ UNCHANGED <<arch_tok, basic, doc, docClosed, gi, ri, arch, ctxs, bpf_filter,
                   bpf, bpf_map, outfile, exports, run, prev>>

\* TargetArch::from_str(arch)
ParseArch ==
    /\ pc = "arch"
    /\ LET r == ArchFromStr(arch_tok) IN
       IF r.ok
       THEN arch' = r.arch /\ pc' = After("arch") /\ UNCHANGED <<result, memfd>>
       ELSE Return("ArchParse") /\ UNCHANGED arch
    /\ UNCHANGED <<arch_tok, basic, doc, docClosed, gi, ri, ctxs, bpf_filter,
                   bpf, bpf_map, outfile, trace, exports, run, prev>>

\* libc::memfd_create and File::from_raw_fd
MemfdCreate ==
    /\ pc = "memfd"
    /\ LET c == [op |-> "memfd_create"] IN
       \E memfd_fd \in Env(c, {3, -1}) :
          /\ trace' = Log(c, memfd_fd)
          /\ IF memfd_fd < 0
             THEN Return("MemfdCreate")
             ELSE /\ memfd' = [id |-> memfd.id + 1, open |-> TRUE, data |-> <<>>, pos |-> 0]
                  /\ pc' = After("memfd")
                  /\ UNCHANGED result
    /\ UNCHANGED <<arch_tok, basic, doc, docClosed, gi, ri, arch, ctxs, bpf_filter,
                   bpf, bpf_map, outfile, exports, run, prev>>

\* The loop over bpf_map_json.0 ends: every group is inserted.
GroupsDone ==
    /\ pc = "group"
    /\ gi = Len(doc)
    /\ docClosed' = TRUE
    /\ pc' = After("group")
    /\ UNCHANGED <<arch_tok, basic, doc, result, gi, ri, arch, ctxs, bpf_filter, memfd,
                   bpf, bpf_map, outfile, trace, exports, run, prev>>

\* The groups the iterator may yield next: the one the document is known to
\* hold there, or, where it is not yet known, any group the documents draw from.
NextGroups ==
    IF gi < Len(doc) THEN {doc[gi + 1]}
    ELSE IF docClosed \/ Len(doc) >= MaxGroups \/ Len(doc) >= Len(GroupShapes) THEN {}
    ELSE GroupsAt(Len(doc) + 1, MaxRules - RuleCount(doc))

\* let default_action = filter.default_action.to_scmp_type();
DefaultAction(filter) == ActionToScmp(filter.default_action)
\* filter_action taken from the wrong field of the filter.
FilterActionFromDefault(filter) == ActionToScmp(filter.default_action)

\* let filter_action = filter.filter_action.to_scmp_type();
FilterAction(filter) == ActionToScmp(filter.filter_action)

\* The head of the loop over the groups and seccomp_init(default_action).
BeginGroup ==
    /\ pc = "group"
    /\ \E g \in NextGroups :
         /\ doc' = IF gi < Len(doc) THEN doc ELSE Append(doc, g)
         /\ LET c == [op |-> "seccomp_init", action |-> DefaultAction(g.filter)] IN
            \E r \in Env(c, {Len(ctxs) + 1, 0}) :
               /\ trace' = Log(c, r)
               /\ IF r = 0
                  THEN Return("LibSeccompContext") /\ UNCHANGED <<ctxs, bpf_filter>>
                  ELSE /\ ctxs' = Append(ctxs, SeccompInit(c.action))
                       /\ bpf_filter' = r
                       /\ pc' = "arch_add"
                       /\ UNCHANGED <<result, memfd>>
    /\ ri' = 0
    /\ UNCHANGED <<arch_tok, basic, docClosed, gi, arch, bpf, bpf_map, outfile,
                   exports, run, prev>>

\* The check of seccomp_arch_add's answer that takes only 0 for success.
ArchAddOkZeroOnly(r) == r = 0

\* The check of seccomp_arch_add's answer that takes every answer for success.
ArchAddOkAlways(r) == TRUE

\* Whether compile_bpf goes on after seccomp_arch_add answered r.
ArchAddOk(r) == r = 0 \/ r = MINUS_EEXIST

\* seccomp_arch_add(bpf_filter, arch.to_scmp_type())
ArchAdd ==
    /\ pc = "arch_add"
    /\ LET c == [op |-> "seccomp_arch_add", ctx |-> bpf_filter, arch |-> ArchToScmp(arch)] IN
       \E r \in Env(c, {SeccompArchAddResp(ctxs[c.ctx], arch), MINUS_EINVAL}) :
          /\ trace' = Log(c, r)
          /\ ctxs' = [ctxs EXCEPT ![c.ctx] = SeccompArchAdd(@, arch, r)]
          /\ IF ArchAddOk(r)
             THEN pc' = "rule" /\ UNCHANGED <<result, memfd>>
             ELSE Return("LibSeccompAddArch")
    /\ UNCHANGED <<arch_tok, basic, doc, docClosed, gi, ri, arch, bpf_filter,
                   bpf, bpf_map, outfile, exports, run, prev>>

\* The rules iterated from the last to the first.
NextRuleReversed(filter, n) == filter.filter[Len(filter.filter) - n]

\* for rule in filter.filter.iter(): the rule the iterator yields after n rules.
NextRule(filter, n) == filter.filter[n + 1]

\* Whether the iterator over filter.filter is exhausted after n rules.
RulesDone(filter, n) == n >= Len(filter.filter)

\* The check of the resolver's answer that lets every answer through.
ResolveFailedNever(r) == FALSE

\* The check of the resolver's answer with the comparison off by one.
ResolveFailedStrict(r) == r < NR_SCMP_ERROR

\* if r == __NR_SCMP_ERROR
ResolveFailed(r) == r = NR_SCMP_ERROR

\* rules.iter().map(|rule| rule.to_scmp_type()).collect::<Vec<scmp_arg_cmp>>()
Comparators(rules) == [i \in DOMAIN rules |-> CondToScmp(rules[i])]

\* The rule-add call that passes the array with a count of one comparator.
RuleAddCallFirstCmp(b, ctx, action, syscall, rule) ==
    IF ~b /\ IsSome(rule.args)
    THEN LET comparators == Comparators(Unwrap(rule.args)) IN
         [op |-> "seccomp_rule_add_array", ctx |-> ctx, action |-> action,
          syscall |-> syscall, arg_cnt |-> IF comparators = <<>> THEN 0 ELSE 1,
          arg_array |-> comparators]
    ELSE [op |-> "seccomp_rule_add", ctx |-> ctx, action |-> action,
          syscall |-> syscall, arg_cnt |-> 0]

\* The rule-add call that looks at the rule's args whatever basic says.
RuleAddCallIgnoreBasic(b, ctx, action, syscall, rule) ==
    IF IsSome(rule.args)
    THEN LET comparators == Comparators(Unwrap(rule.args)) IN
         [op |-> "seccomp_rule_add_array", ctx |-> ctx, action |-> action,
          syscall |-> syscall, arg_cnt |-> Len(comparators), arg_array |-> comparators]
    ELSE [op |-> "seccomp_rule_add", ctx |-> ctx, action |-> action,
          syscall |-> syscall, arg_cnt |-> 0]

\* The call that adds one rule: seccomp_rule_add without comparators when
\* basic is set or the rule has no args, seccomp_rule_add_array with the
\* comparators of its args otherwise.
RuleAddCall(b, ctx, action, syscall, rule) ==
    IF b
    THEN [op |-> "seccomp_rule_add", ctx |-> ctx, action |-> action,
          syscall |-> syscall, arg_cnt |-> 0]
    ELSE IF IsSome(rule.args)
    THEN LET comparators == Comparators(Unwrap(rule.args)) IN
         [op |-> "seccomp_rule_add_array", ctx |-> ctx, action |-> action,
          syscall |-> syscall, arg_cnt |-> Len(comparators), arg_array |-> comparators]
    ELSE [op |-> "seccomp_rule_add", ctx |-> ctx, action |-> action,
          syscall |-> syscall, arg_cnt |-> 0]

\* The comparators the backend reads from a rule-add call.
CallCmps(c) ==
    IF c.op = "seccomp_rule_add_array" THEN Take(c.arg_array, c.arg_cnt) ELSE <<>>

\* One turn of the loop over the rules: resolve the syscall, add the rule.
RuleStep ==
    /\ pc = "rule"
    /\ ~RulesDone(CurFilter, ri)
    /\ LET rule == NextRule(CurFilter, ri)
           rc == [op |-> "seccomp_syscall_resolve_name", name |-> rule.syscall]
           syscall == SeccompSyscallResolveName(rule.syscall)
       IN
       IF ResolveFailed(syscall)
       THEN /\ trace' = Log(rc, syscall)
            /\ Return("LibSeccompResolveSyscall")
            /\ UNCHANGED <<ctxs, ri>>
       ELSE LET c == RuleAddCall(basic, bpf_filter, FilterAction(CurFilter), syscall, rule) IN
            \E r \in EnvAt(Len(trace) + 2, c, {0, MINUS_EINVAL}) :
               /\ trace' = Append(Log(rc, syscall), Entry(c, r))
               /\ IF r # 0
                  THEN Return("LibSeccompAddRule") /\ UNCHANGED <<ctxs, ri>>
                  ELSE /\ ctxs' = [ctxs EXCEPT ![c.ctx] =
                                     SeccompRuleAdd(@, c.action, c.syscall, CallCmps(c))]
                       /\ ri' = ri + 1
                       /\ UNCHANGED <<pc, result, memfd>>
    /\ UNCHANGED <<arch_tok, basic, doc, docClosed, gi, arch, bpf_filter,
                   bpf, bpf_map, outfile, exports, run, prev>>

\* seccomp_export_bpf(bpf_filter, memfd.as_raw_fd()): the backend writes the
\* program at the memfd's offset with one write(2).
Export ==
    /\ pc = "rule"
    /\ RulesDone(CurFilter, ri)
    /\ LET c == [op |-> "seccomp_export_bpf", ctx |-> bpf_filter, fd |-> memfd.id]
           program == SeccompExportBpf(ctxs[c.ctx])
           w == [op |-> "write", fd |-> memfd.id, len |-> Len(program)]
       IN
       \E r \in Env(c, {0, MINUS_EINVAL}) :
          IF r # 0
          THEN /\ trace' = Log(c, r)
               /\ Return("LibSeccompExport")
               /\ UNCHANGED exports
          ELSE \E n \in EnvAt(Len(trace) + 2, w, WriteCounts(program)) :
                  LET bytes == Take(program, n) IN
                  /\ trace' = Append(Log(c, r), Entry(w, n))
                  /\ memfd' = [memfd EXCEPT !.data = WriteAt(@, memfd.pos, bytes),
                                            !.pos = @ + Len(bytes)]
                  /\ exports' = Append(exports, [fd |-> c.fd, group |-> CurName, bytes |-> bytes])
                  /\ pc' = "rewind"
                  /\ UNCHANGED result
    /\ UNCHANGED <<arch_tok, basic, doc, docClosed, gi, ri, arch, ctxs, bpf_filter,
                   bpf, bpf_map, outfile, run, prev>>

\* memfd.rewind() after the export
Rewind ==
    /\ pc = "rewind"
    /\ LET c == [op |-> "rewind", fd |-> memfd.id] IN
       \E r \in Env(c, {0, -1}) :
          /\ trace' = Log(c, r)
          /\ IF r # 0
             THEN Return("MemfdRewind")
             ELSE /\ memfd' = [memfd EXCEPT !.pos = 0]
                  /\ pc' = "size"
                  /\ UNCHANGED result
    /\ UNCHANGED <<arch_tok, basic, doc, docClosed, gi, ri, arch, ctxs, bpf_filter,
                   bpf, bpf_map, outfile, exports, run, prev>>

\* The word count that rounds the size up to whole words.
InstructionsRoundUp(size) == (size + WordSize - 1) \div WordSize

\* let instructions = size / std::mem::size_of::<u64>();
Instructions(size) == size \div WordSize

\* memfd.metadata().unwrap().size(), instructions, vec![0_u64; instructions]:
\* the OS answers with the file's size, or the query fails and unwrap panics.
StatSize ==
    /\ pc = "size"
    /\ LET c == [op |-> "metadata", fd |-> memfd.id] IN
       \E r \in Env(c, {Len(memfd.data), -1}) :
          /\ trace' = Log(c, r)
          /\ IF r < 0
             THEN Return("panic") /\ UNCHANGED bpf
             ELSE LET size == r
                      instructions == Instructions(size)
                  IN  /\ bpf' = ZeroWords(instructions)
                      /\ pc' = "read_exact"
                      /\ UNCHANGED <<result, memfd>>
    /\ UNCHANGED <<arch_tok, basic, doc, docClosed, gi, ri, arch, ctxs, bpf_filter,
                   bpf_map, outfile, exports, run, prev>>

\* memfd.read_exact(bpf.as_mut_bytes()): fills the whole buffer from the
\* memfd's offset, or fails when the file ends before the buffer is full.
ReadExact ==
    /\ pc = "read_exact"
    /\ LET n == Len(bpf) * WordSize
           c == [op |-> "read_exact", fd |-> memfd.id, pos |-> memfd.pos, len |-> n]
           eof == memfd.pos + n > Len(memfd.data)
       IN
       \E r \in Env(c, IF eof THEN {-1} ELSE {0, -1}) :
          /\ trace' = Log(c, r)
          /\ IF r # 0
             THEN Return("MemfdRead") /\ UNCHANGED bpf
             ELSE /\ bpf' = BytesToWords(SubSeq(memfd.data, memfd.pos + 1, memfd.pos + n))
                  /\ memfd' = [memfd EXCEPT !.pos = @ + n]
                  /\ pc' = "rewind2"
                  /\ UNCHANGED result
    /\ UNCHANGED <<arch_tok, basic, doc, docClosed, gi, ri, arch, ctxs, bpf_filter,
                   bpf_map, outfile, exports, run, prev>>

\* The second memfd.rewind() and bpf_map.insert(name.clone(), bpf); the loop
\* goes to the next group.
RewindInsert ==
    /\ pc = "rewind2"
    /\ LET c == [op |-> "rewind", fd |-> memfd.id] IN
       \E r \in Env(c, {0, -1}) :
          /\ trace' = Log(c, r)
          /\ IF r # 0
             THEN Return("MemfdRewind") /\ UNCHANGED <<bpf, bpf_map, gi>>
             ELSE /\ memfd' = [memfd EXCEPT !.pos = 0]
                  /\ bpf_map' = MapInsert(bpf_map, CurName, bpf)
                  /\ bpf' = <<>>
                  /\ gi' = gi + 1
                  /\ pc' = "group"
                  /\ UNCHANGED result
    /\ UNCHANGED <<arch_tok, basic, doc, docClosed, ri, arch, ctxs, bpf_filter,
                   outfile, exports, run, prev>>

\* File::create(out_path): the file is created or truncated.
OutputCreate ==
    /\ pc = "create"
    /\ LET c == [op |-> "File::create", path |-> "out_path"] IN
       \E r \in Env(c, {0, -1}) :
          /\ trace' = Log(c, r)
          /\ IF r # 0
             THEN Return("OutputCreate") /\ UNCHANGED outfile
             ELSE /\ outfile' = [state |-> "created", content |-> <<>>]
                  /\ pc' = After("create")
                  /\ UNCHANGED <<result, memfd>>
    /\ UNCHANGED <<arch_tok, basic, doc, docClosed, gi, ri, arch, ctxs, bpf_filter,
                   bpf, bpf_map, exports, run, prev>>

\* bincode::serialize_into(output_file, &bpf_map) and Ok(()): the HashMap is
\* iterated in the order its RandomState gives it; a failed write leaves a
\* part of the encoding in the file.
Serialize ==
    /\ pc = "serialize"
    /\ LET c == [op |-> "serialize_into"] IN
       \E order \in Perms(DOMAIN bpf_map), r \in Env(c, {0, -1}) :
          LET bytes == Bincode(bpf_map, order) IN
          /\ trace' = Log(c, r)
          /\ IF r # 0
             THEN /\ outfile' = [state |-> "written", content |-> Take(bytes, Len(bytes) \div 2)]
                  /\ Return("BincodeSerialize")
             ELSE /\ outfile' = [state |-> "written", content |-> bytes]
                  /\ Return("Ok")
    /\ UNCHANGED <<arch_tok, basic, doc, docClosed, gi, ri, arch, ctxs, bpf_filter,
                   bpf, bpf_map, exports, run, prev>>

\* The caller calls compile_bpf again, on document d with mode b: the locals
\* are those of a fresh call, and what the first call did is kept in prev.
CallAgain(d, b, stripped, artifact) ==
    /\ pc = "done"
    /\ run = 1
    /\ prev' = [doc |-> doc, arch_tok |-> arch_tok, basic |-> basic,
                stripped |-> stripped, trace |-> trace, result |-> result,
                bpf_map |-> bpf_map, artifact |-> artifact]
    /\ doc' = d
    /\ basic' = b
    /\ run' = 2
    /\ outfile' = [state |-> "untouched", content |-> artifact]
    /\ pc' = StageOrder[1]
    /\ result' = "running"
    /\ gi' = 0 /\ ri' = 0
    /\ arch' = ""
    /\ ctxs' = <<>> /\ bpf_filter' = 0
    /\ memfd' = NoMemfd
    /\ bpf' = <<>> /\ bpf_map' = <<>>
    /\ trace' = <<>> /\ exports' = <<>>
    /\ UNCHANGED <<arch_tok, docClosed>>

\* After a call that returned Ok, the same call again on the same out_path.
RerunSame ==
    /\ pc = "done"
    /\ result = "Ok"
    /\ CallAgain(doc, basic, FALSE, outfile.content)

\* The outcomes the filter backend decides: Ok and the LibSeccomp errors.
BackendOutcomes ==
    {"Ok", "LibSeccompContext", "LibSeccompAddArch", "LibSeccompResolveSyscall",
     "LibSeccompAddRule", "LibSeccompExport"}

\* After a call with basic set on a document that has args, which ended with
\* an outcome the backend decides, a call on the document with args omitted
\* from every rule, in either mode, that writes to another out_path.
RerunStripped ==
    /\ pc = "done"
    /\ basic
    /\ result \in BackendOutcomes
    /\ StripArgs(doc) # doc
    /\ \E b \in BOOLEAN : CallAgain(StripArgs(doc), b, TRUE, <<>>)

Next ==
    \/ OpenInput \/ ReadInput \/ ParseJson \/ ParseArch \/ MemfdCreate
    \/ BeginGroup \/ ArchAdd \/ RuleStep \/ Export \/ Rewind \/ StatSize
    \/ ReadExact \/ RewindInsert \/ GroupsDone \/ OutputCreate \/ Serialize

\* One call of compile_bpf.
Spec == Init /\ [][Next]_vars

NextTwice == Next \/ RerunSame

\* Two calls of compile_bpf on the same input, one after the other.
SpecTwice == Init /\ [][NextTwice]_vars

NextLegacy == Next \/ RerunStripped

\* A call of compile_bpf with basic set, then a call on the stripped document.
SpecLegacy == Init /\ [][NextLegacy]_vars

\* ---------------------------------------------------------- the claims

Done == pc = "done"

\* The entries of a trace made for group g whose call is one of ops.
CallsOf(t, g, ops) ==
    LET Test(e) == e.group = g /\ e.call.op \in ops IN SelectSeq(t, Test)

RuleAddOps == {"seccomp_rule_add", "seccomp_rule_add_array"}

\* The last element of a sequence.
Last(s) == s[Len(s)]

\* C1: after a successful run the program stored under a group's name is
\* exactly the words the backend exported for that group's context.
C1_ProgramIsOwnExport ==
    result = "Ok" =>
        \A i \in DOMAIN exports :
            bpf_map[exports[i].group] = BytesToWords(exports[i].bytes)

\* C2: no buffer receives the export of two different filter groups.
C2_FreshBufferPerGroup ==
    \A i, j \in DOMAIN exports :
        exports[i].fd = exports[j].fd => exports[i].group = exports[j].group

\* Whether the run has gone past rule k of group g: the group is inserted,
\* or it is the current one and the rule is among its first ri.
Passed(g, k) == g <= gi \/ (g = gi + 1 /\ k <= ri)

\* C3: a syscall name that does not resolve ends the run with
\* LibSeccompResolveSyscall at that rule: the resolve call is the last call
\* of the run, no rule-add follows it, and the run never goes past a rule
\* whose name does not resolve.
C3_UnresolvedAborts ==
    /\ \A i \in DOMAIN trace :
          (trace[i].call.op = "seccomp_syscall_resolve_name" /\ trace[i].resp = NR_SCMP_ERROR)
             => i = Len(trace) /\ Done /\ result = "LibSeccompResolveSyscall"
    /\ \A g \in DOMAIN doc : \A k \in DOMAIN doc[g].filter.filter :
          Passed(g, k) =>
              SeccompSyscallResolveName(doc[g].filter.filter[k].syscall) # NR_SCMP_ERROR
    /\ \A i \in DOMAIN trace :
          trace[i].call.op \in RuleAddOps => trace[i].call.syscall # NR_SCMP_ERROR

\* A run that ended at an unresolvable name in a later rule of a later group.
C3_Witness ==
    /\ Done /\ result = "LibSeccompResolveSyscall"
    /\ gi = 1 /\ ri = 1
    /\ Last(trace).call.op = "seccomp_syscall_resolve_name"

\* The errors of the steps that come before File::create.
EarlyErrors ==
    {"IntputOpen", "InputRead", "JsonDeserialize", "ArchParse", "MemfdCreate",
     "LibSeccompContext", "LibSeccompAddArch", "LibSeccompResolveSyscall",
     "LibSeccompAddRule", "LibSeccompExport", "MemfdRewind", "MemfdRead"}

\* C4: a run that fails at any step before the final write has not created,
\* truncated or written the file at out_path.
C4_OutputUntouchedOnEarlyFailure ==
    (Done /\ result \in EarlyErrors) => outfile.state = "untouched"

\* A run that failed reading the memfd back for its second group.
C4_Witness ==
    Done /\ result = "MemfdRead" /\ gi = 1 /\ outfile.state = "untouched"

\* C5: two successful runs on the same document, architecture token and
\* mode flag write byte-identical output files.
C5_Deterministic ==
    ( /\ run = 2 /\ Done /\ result = "Ok"
      /\ prev.result = "Ok" /\ ~prev.stripped
      /\ prev.doc = doc /\ prev.arch_tok = arch_tok /\ prev.basic = basic )
    => outfile.content = prev.artifact

\* Whether the loop has left group g: it is inserted, or exported.
Exported(g) == g <= gi \/ CallsOf(trace, g, {"seccomp_export_bpf"}) # <<>>

\* C6: without basic, a rule whose args hold N conditions makes exactly one
\* rule-add call, seccomp_rule_add_array with all N comparators in their
\* listed order; a group gets as many rule-add calls as it has rules.
C6_OneCallPerRule ==
    ~basic =>
        \A g \in DOMAIN doc :
            LET rules == doc[g].filter.filter
                adds == CallsOf(trace, g, RuleAddOps)
            IN  /\ Len(adds) <= Len(rules)
                /\ Exported(g) => Len(adds) = Len(rules)
                /\ \A k \in DOMAIN adds :
                      IsSome(rules[k].args) =>
                          LET conds == Unwrap(rules[k].args) IN
                          /\ adds[k].call.op = "seccomp_rule_add_array"
                          /\ adds[k].call.arg_cnt = Len(conds)
                          /\ adds[k].call.arg_array = [i \in DOMAIN conds |-> CondToScmp(conds[i])]

\* A successful run without basic over a rule with two argument conditions.
C6_Witness ==
    /\ ~basic /\ Done /\ result = "Ok"
    /\ \E g \in DOMAIN doc : \E k \in DOMAIN doc[g].filter.filter :
          /\ IsSome(doc[g].filter.filter[k].args)
          /\ Len(Unwrap(doc[g].filter.filter[k].args)) = 2

\* The calls of a trace that go to the filter backend, with their answers.
BackendCalls(t) ==
    LET Test(e) ==
          e.call.op \in {"seccomp_init", "seccomp_arch_add", "seccomp_syscall_resolve_name",
                         "seccomp_rule_add", "seccomp_rule_add_array", "seccomp_export_bpf"}
    IN  SelectSeq(t, Test)

\* C7: with basic set no comparator reaches the backend, and the backend
\* calls, the outcome and the compiled programs of a run with basic set on a
\* document equal those of a run on the document with args omitted.
C7_LegacyDropsArgs ==
    /\ basic =>
          \A i \in DOMAIN trace :
              trace[i].call.op \in RuleAddOps =>
                  trace[i].call.op = "seccomp_rule_add" /\ trace[i].call.arg_cnt = 0
    /\ ( /\ run = 2 /\ Done
         /\ prev.stripped /\ prev.basic
         /\ doc = StripArgs(prev.doc) )
       => /\ BackendCalls(trace) = BackendCalls(prev.trace)
          /\ result = prev.result
          /\ bpf_map = prev.bpf_map

\* A successful run without basic on the stripped twin of a two-group
\* document whose rules had args, after the run with basic on the document.
C7_Witness ==
    /\ run = 2 /\ Done /\ result = "Ok" /\ ~basic
    /\ prev.stripped /\ prev.basic
    /\ doc = StripArgs(prev.doc) /\ doc # prev.doc
    /\ Len(doc) = 2

\* C8: the rule-add calls of a group follow the order of its rules, one call
\* per rule, and all of them come before the group's export.
C8_RuleOrder ==
    \A g \in DOMAIN doc :
        LET rules == doc[g].filter.filter
            adds == CallsOf(trace, g, RuleAddOps)
            resolves == CallsOf(trace, g, {"seccomp_syscall_resolve_name"})
        IN  /\ Len(adds) <= Len(rules)
            /\ Len(resolves) <= Len(rules)
            /\ \A k \in DOMAIN resolves : resolves[k].call.name = rules[k].syscall
            /\ \A k \in DOMAIN adds :
                  adds[k].call.syscall = SeccompSyscallResolveName(rules[k].syscall)
            /\ \A e \in DOMAIN trace :
                  (trace[e].group = g /\ trace[e].call.op = "seccomp_export_bpf") =>
                      LET before == CallsOf(Take(trace, e - 1), g, RuleAddOps) IN
                      /\ Len(before) = Len(rules)
                      /\ \A k \in DOMAIN before : before[k].resp = 0
                      /\ ctxs[trace[e].call.ctx].rules =
                            [k \in DOMAIN rules |->
                                [action |-> before[k].call.action,
                                 syscall |-> SeccompSyscallResolveName(rules[k].syscall),
                                 cmps |-> CallCmps(before[k].call)]]

\* A successful run over a group of two rules for different syscalls.
C8_Witness ==
    /\ Done /\ result = "Ok"
    /\ \E g \in DOMAIN doc :
          /\ Len(doc[g].filter.filter) = 2
          /\ doc[g].filter.filter[1].syscall # doc[g].filter.filter[2].syscall

\* Whether the loop has taken up group g.
Begun(g) == g <= gi \/ (g = gi + 1 /\ pc # "group")

\* C9: each group gets exactly one context, seeded with its default_action;
\* the architecture-add, rule-add and export calls of the group go to that
\* context, every rule-add carries the group's filter_action, and no two
\* groups share a context.
C9_OneContextPerGroup ==
    /\ \A g \in DOMAIN doc :
          Begun(g) =>
              LET inits == CallsOf(trace, g, {"seccomp_init"})
                  own == inits[1].resp
              IN  /\ Len(inits) = 1
                  /\ inits[1].call.action = ActionToScmp(doc[g].filter.default_action)
                  /\ own # 0 => ctxs[own].default_action = ActionToScmp(doc[g].filter.default_action)
                  /\ \A i \in DOMAIN trace :
                        ( /\ trace[i].group = g
                          /\ trace[i].call.op \in RuleAddOps \cup {"seccomp_arch_add", "seccomp_export_bpf"} )
                        => /\ own # 0
                           /\ trace[i].call.ctx = own
                           /\ trace[i].call.op \in RuleAddOps =>
                                 trace[i].call.action = ActionToScmp(doc[g].filter.filter_action)
                  /\ \A h \in DOMAIN doc :
                        (h # g /\ Begun(h) /\ own # 0) =>
                            CallsOf(trace, h, {"seccomp_init"})[1].resp # own
    /\ Len(ctxs) = Cardinality({g \in DOMAIN doc :
                                  Begun(g) /\ CallsOf(trace, g, {"seccomp_init"})[1].resp # 0})

\* Two groups with rules, each compiled through its own context.
C9_Witness ==
    /\ gi = 2 /\ Len(ctxs) = 2
    /\ \A g \in DOMAIN doc : doc[g].filter.filter # <<>>
    /\ ctxs[1].default_action # ctxs[2].default_action

\* C10: a group with an empty rule list gets its context, architecture and
\* export calls and no rule-add call, and once inserted its entry of the
\* output mapping holds a non-empty program, the backend's export of the
\* context that has only the default action.
C10_EmptyGroupCompiles ==
    \A g \in DOMAIN doc :
        (doc[g].filter.filter = <<>> /\ g <= gi) =>
            /\ CallsOf(trace, g, RuleAddOps) = <<>>
            /\ \A op \in {"seccomp_init", "seccomp_arch_add", "seccomp_export_bpf"} :
                  Len(CallsOf(trace, g, {op})) = 1
            /\ doc[g].name \in DOMAIN bpf_map
            /\ Len(bpf_map[doc[g].name]) > 0
            /\ \E i \in DOMAIN exports :
                  /\ exports[i].group = doc[g].name
                  /\ bpf_map[doc[g].name] = BytesToWords(exports[i].bytes)

\* The calls a group makes once its architecture is registered.
AfterArchOps == RuleAddOps \cup {"seccomp_syscall_resolve_name", "seccomp_export_bpf"}

\* C11: an answer of 0 or MINUS_EEXIST from seccomp_arch_add lets the group
\* go on to its rules; any other answer ends the run with LibSeccompAddArch
\* at that call, with no rule resolved or added and nothing exported for the
\* group; and LibSeccompAddArch is returned for no other reason.
C11_ArchAddTriState ==
    /\ \A i \in DOMAIN trace :
          trace[i].call.op = "seccomp_arch_add" =>
              IF trace[i].resp = 0 \/ trace[i].resp = MINUS_EEXIST
              THEN i = Len(trace) => (pc = "rule" /\ result = "running")
              ELSE /\ i = Len(trace) /\ Done /\ result = "LibSeccompAddArch"
                   /\ CallsOf(trace, trace[i].group, AfterArchOps) = <<>>
                   /\ \A j \in DOMAIN exports : exports[j].group # doc[trace[i].group].name
    /\ result = "LibSeccompAddArch" =>
          /\ Last(trace).call.op = "seccomp_arch_add"
          /\ Last(trace).resp \notin {0, MINUS_EEXIST}

\* A run whose first group went on to its export after the backend answered
\* "already registered", and whose second group's registration failed.
C11_Witness ==
    /\ Done /\ result = "LibSeccompAddArch" /\ gi = 1
    /\ \E i \in DOMAIN trace :
          /\ trace[i].group = 1
          /\ trace[i].call.op = "seccomp_arch_add"
          /\ trace[i].resp = MINUS_EEXIST
    /\ CallsOf(trace, 1, RuleAddOps) # <<>>

\* C12: from memfd_create's success to the return the memfd is open, and
\* whenever compile_bpf has returned after a memfd was created, with Ok or
\* with any error, that memfd is closed; only one memfd is ever created.
C12_MemfdReleased ==
    /\ memfd.id \in {0, 1}
    /\ memfd.id = 0 => ~memfd.open
    /\ memfd.id = 1 => (memfd.open <=> ~Done)
    /\ memfd.id = 1 <=> \E i \in DOMAIN trace :
                            trace[i].call.op = "memfd_create" /\ trace[i].resp >= 0

\* A run that failed at the export of its second group, after the memfd had
\* taken the first group's program.
C12_Witness ==
    /\ Done /\ result = "LibSeccompExport" /\ gi = 1
    /\ memfd.id = 1 /\ ~memfd.open /\ memfd.data # <<>>

\* C13: every run that has ended has returned Ok(()) or Err of a
\* CompilationError; in particular a failed query of the memfd's size after
\* a successful export ends the run with a CompilationError.
C13_FailuresAreReturned ==
    /\ Done => result \in {"Ok"} \cup CompilationError
    /\ \A i \in DOMAIN trace :
          (trace[i].call.op = "metadata" /\ trace[i].resp < 0) =>
              result \in CompilationError

\* Whether an entry of the trace is a call that failed, as compile_bpf
\* reads the call's answer.
Failed(e) ==
    CASE e.call.op = "seccomp_init" -> e.resp = 0
      [] e.call.op = "seccomp_arch_add" -> e.resp # 0 /\ e.resp # MINUS_EEXIST
      [] e.call.op = "seccomp_syscall_resolve_name" -> e.resp = NR_SCMP_ERROR
      [] e.call.op \in {"memfd_create", "metadata", "write"} -> e.resp < 0
      [] OTHER -> e.resp # 0

\* C14: a failed call is the last call of its run: the run has ended, not
\* with Ok, and no backend, memfd or output-file operation follows it, so
\* none is made a second time; a run has ended exactly when it has its one
\* outcome, which is Ok only after every call succeeded and the artifact was
\* serialized, and a failure otherwise.
C14_FirstErrorAborts ==
    /\ \A i \in DOMAIN trace :
          Failed(trace[i]) => i = Len(trace) /\ Done /\ result \notin {"Ok", "running"}
    /\ Done <=> result # "running"
    /\ result = "Ok" =>
          /\ \A i \in DOMAIN trace : ~Failed(trace[i])
          /\ Last(trace).call.op = "serialize_into"
    /\ (Done /\ result # "Ok") =>
          \/ Failed(Last(trace))
          \/ result = "ArchParse" /\ Last(trace).call.op = "serde_json::from_str"
    /\ \A op \in {"File::open", "read_to_string", "serde_json::from_str", "memfd_create",
                  "File::create", "serialize_into"} :
          Len(CallsOf(trace, 0, {op})) <= 1

\* A run that ended at a failed rule-add in its second group, after the
\* first group was compiled.
C14_Witness ==
    /\ Done /\ result = "LibSeccompAddRule" /\ gi = 1
    /\ Failed(Last(trace))
    /\ Last(trace).call.op \in RuleAddOps

\* Whether the run was given a valid policy document: the input file was
\* opened, read and parsed, and the architecture token is a supported one.
ValidDocument ==
    /\ Len(trace) >= 3
    /\ \A i \in 1..3 : ~Failed(trace[i])
    /\ ArchFromStr(arch_tok).ok

\* Whether every syscall name of every rule of the groups of d resolves.
AllResolve(d) ==
    \A g \in DOMAIN d : \A k \in DOMAIN d[g].filter.filter :
        SeccompSyscallResolveName(d[g].filter.filter[k].syscall) # NR_SCMP_ERROR

\* Whether a call to the backend or the OS other than the resolver failed.
EnvFailed ==
    \E i \in DOMAIN trace :
        Failed(trace[i]) /\ trace[i].call.op # "seccomp_syscall_resolve_name"

\* C15 as stated: on a valid document compile_bpf returns Ok if and only if
\* the run has seen the whole document and every syscall name in it resolves.
C15_SucceedsIffResolves ==
    (Done /\ ValidDocument) => (result = "Ok" <=> (docClosed /\ AllResolve(doc)))

\* C15, amended: on a valid document compile_bpf returns Ok if and only if
\* every syscall name the run came to resolves and no call to the backend,
\* the memfd or the output file failed; a run that returned Ok has gone
\* through the whole document.
C15_SucceedsIffResolvesAndEnvOk ==
    /\ (Done /\ ValidDocument) => (result = "Ok" <=> (AllResolve(doc) /\ ~EnvFailed))
    /\ result = "Ok" => (ValidDocument /\ docClosed /\ gi = Len(doc))

\* A successful run over two groups that hold two rules between them.
C15_Witness ==
    /\ Done /\ ValidDocument /\ result = "Ok"
    /\ Len(doc) = 2 /\ RuleCount(doc) = 2 /\ AllResolve(doc)

\* The names of the filter groups of a document.
Names(d) == {d[g].name : g \in DOMAIN d}

\* The keys an artifact holds, one per String item of its encoding.
ArtifactKeyItems(content) == {i \in DOMAIN content : content[i].t = "utf8"}
ArtifactKeys(content) == {content[i].s : i \in ArtifactKeyItems(content)}

\* C16: the mapping grows by one entry per compiled group; serialize_into
\* is called at most once, as the last call of the run, after the last
\* group's program was inserted; and after Ok the keys of the mapping and
\* of the artifact written are exactly the document's group names, one
\* entry each.
C16_OneEntryPerGroup ==
    /\ DOMAIN bpf_map = Names(Take(doc, gi))
    /\ Len(CallsOf(trace, 0, {"serialize_into"})) <= 1
    /\ \A i \in DOMAIN trace :
          trace[i].call.op = "serialize_into" =>
              /\ i = Len(trace)
              /\ docClosed /\ gi = Len(doc)
              /\ Len(CallsOf(trace, 0, {"File::create"})) = 1
    /\ result = "Ok" =>
          /\ docClosed
          /\ DOMAIN bpf_map = Names(doc)
          /\ ArtifactKeys(outfile.content) = Names(doc)
          /\ Cardinality(ArtifactKeyItems(outfile.content)) = Len(doc)
          /\ Head(outfile.content) = [t |-> "u64", v |-> Len(doc)]
          /\ Len(CallsOf(trace, 0, {"serialize_into"})) = 1

\* A successful run over two groups.
C16_Witness ==
    /\ Done /\ result = "Ok" /\ Len(doc) = 2
    /\ ArtifactKeys(outfile.content) = {"api", "vcpu"}

\* The size the memfd reported in group g's turn of the loop.
ReportedSize(g) == CallsOf(trace, g, {"metadata"})[1].resp

\* C17: the size the memfd reports is not checked: the call after a size
\* query that succeeded is read_exact, at offset 0, for 8 * floor(S / 8)
\* bytes of the reported size S; the words recorded for a group, in bpf and
\* then in the mapping, number floor(S / 8); MemfdRead is returned only for a
\* failed read_exact.
C17_WordsAreSizeDiv8 ==
    /\ \A i \in DOMAIN trace :
          (trace[i].call.op = "metadata" /\ trace[i].resp >= 0) =>
              IF i = Len(trace)
              THEN /\ pc = "read_exact" /\ result = "running"
                   /\ Len(bpf) = trace[i].resp \div 8
              ELSE /\ trace[i + 1].call.op = "read_exact"
                   /\ trace[i + 1].group = trace[i].group
                   /\ trace[i + 1].call.pos = 0
                   /\ trace[i + 1].call.len = 8 * (trace[i].resp \div 8)
    /\ \A i \in DOMAIN trace :
          trace[i].call.op = "read_exact" => (i > 1 /\ trace[i - 1].call.op = "metadata")
    /\ \A g \in 1..gi : Len(bpf_map[doc[g].name]) = ReportedSize(g) \div 8
    /\ pc = "rewind2" => Len(bpf) = ReportedSize(gi + 1) \div 8
    /\ result = "MemfdRead" => Last(trace).call.op = "read_exact"

\* A successful run whose memfd reported a size that is not a multiple of 8
\* for a group, whose program was recorded all the same.
C17_Witness ==
    /\ Done /\ result = "Ok" /\ gi >= 1
    /\ ReportedSize(1) % 8 # 0
    /\ Len(bpf_map[doc[1].name]) = ReportedSize(1) \div 8
    /\ Len(bpf_map[doc[1].name]) > 0

\* The largest byte size among the first k exports of the run.
MaxExported(k) ==
    IF k = 0 THEN 0
    ELSE CHOOSE n \in {Len(exports[i].bytes) : i \in 1..k} :
            \A i \in 1..k : Len(exports[i].bytes) <= n

\* C18: the memfd holds as many bytes as the largest export of the run so
\* far, so the sizes it reports never go down from one group to the next;
\* the k-th processed group is recorded with floor(max(exported sizes of
\* groups 1..k) / 8) words, never fewer than a group processed before it.
C18_BufferNeverShrinks ==
    /\ Len(memfd.data) = MaxExported(Len(exports))
    /\ \A i \in DOMAIN exports : exports[i].group = doc[i].name
    /\ \A g \in 1..gi :
          /\ Len(bpf_map[doc[g].name]) = MaxExported(g) \div 8
          /\ ReportedSize(g) = MaxExported(g)
          /\ \A h \in 1..g :
                /\ Len(bpf_map[doc[h].name]) <= Len(bpf_map[doc[g].name])
                /\ ReportedSize(h) <= ReportedSize(g)

\* Two compiled groups, the second with a shorter export than the first and
\* yet recorded with as many words as the first.
C18_Witness ==
    /\ gi = 2
    /\ Len(exports[2].bytes) < Len(exports[1].bytes)
    /\ Len(bpf_map[doc[2].name]) = Len(bpf_map[doc[1].name])
    /\ Len(bpf_map[doc[2].name]) > Len(exports[2].bytes) \div 8

\* C19: when compile_bpf has ended, with Ok or with an error, every context
\* that seccomp_init returned during the run has been released.
C19_ContextsReleased ==
    Done => \A p \in DOMAIN ctxs : ctxs[p].released

====
